---- MODULE Spec2Model ----
(***************************************************************************)
(* A model of the three analysis scripts of consul-pprof-toolkit:          *)
(*   analyze/compare-heaps.py, analyze/heap-summary.py and                 *)
(*   analyze/goroutine-summary.py.                                         *)
(* Text is a sequence of one-character strings, so the regular             *)
(* expressions, float() and str.split of the scripts are computed on       *)
(* characters.  A dict or Counter is a sequence of <<key, value>> pairs    *)
(* with distinct keys, in insertion order.                                 *)
(***************************************************************************)
EXTENDS Integers, Sequences, FiniteSets, TLC

VARIABLES
    prog,        \* which script runs: "compare", "heap" or "goroutine"
    pc,          \* the position of the script
    exit,        \* "none" while running, else the process exit code "0" / "1"
    err,         \* what ended the script: "none", a fatal() kind or "ValueError"
    log,         \* renderer and parser events, in the order they happened
    out,         \* the sections printed on stdout so far
    top,         \* args.top
    report,      \* what `go tool pprof -top` prints for each profile
    old_map, new_map, delta, growth, shrink,                \* compare-heaps.py
    json, total_live, total_idle, func_rows, pkg_rows,      \* heap-summary.py
    raw, stacks, total, states, sigs                        \* goroutine-summary.py

vars == <<prog, pc, exit, err, log, out, top, report,
          old_map, new_map, delta, growth, shrink,
          json, total_live, total_idle, func_rows, pkg_rows,
          raw, stacks, total, states, sigs>>

compareVars == <<old_map, new_map, delta, growth, shrink>>
heapVars == <<json, total_live, total_idle, func_rows, pkg_rows>>
goroutineVars == <<raw, stacks, total, states, sigs>>

----------------------------------------------------------------------------
(* Bounds of the explored inputs.                                          *)

MaxTop == 3          \* args.top ranges over 0..MaxTop
MaxLines == 3        \* lines of the report heap-summary.py reads
MaxCmpLines == 2     \* lines of each of the two reports compare-heaps.py reads
MaxUnits == 2        \* snapshot values of the differencing runs, in MB
MaxPieces == 3       \* pieces a goroutine dump is concatenated from

----------------------------------------------------------------------------
(* Characters and text.                                                    *)

NL == "\n"
Digits == {"0", "1", "2", "3", "4", "5", "6", "7", "8", "9"}
NumChars == Digits \cup {"."}
Whitespace == {" ", "\t", NL}

DigitVal(c) ==
    CASE c = "0" -> 0 [] c = "1" -> 1 [] c = "2" -> 2 [] c = "3" -> 3
      [] c = "4" -> 4 [] c = "5" -> 5 [] c = "6" -> 6 [] c = "7" -> 7
      [] c = "8" -> 8 [] c = "9" -> 9

Min(a, b) == IF a < b THEN a ELSE b

RECURSIVE Pow10(_)
Pow10(k) == IF k = 0 THEN 1 ELSE 10 * Pow10(k - 1)

FirstN(s, n) == SubSeq(s, 1, Min(n, Len(s)))
From(s, i) == SubSeq(s, i, Len(s))
Reverse(s) == [i \in 1..Len(s) |-> s[Len(s) + 1 - i]]

RECURSIVE Concat(_)
Concat(ss) == IF ss = <<>> THEN <<>> ELSE Head(ss) \o Concat(Tail(ss))

\* sub in s: the least index where sub occurs in s at or after i, else 0
RECURSIVE Find(_, _, _)
Find(s, sub, i) ==
    IF i + Len(sub) - 1 > Len(s) THEN 0
    ELSE IF SubSeq(s, i, i + Len(sub) - 1) = sub THEN i
    ELSE Find(s, sub, i + 1)

Contains(s, sub) == Find(s, sub, 1) # 0

\* the least index >= i whose character is outside class, else Len(s) + 1
RECURSIVE SkipClass(_, _, _)
SkipClass(s, class, i) ==
    IF i > Len(s) \/ s[i] \notin class THEN i ELSE SkipClass(s, class, i + 1)

\* str.splitlines() for text whose only line break is "\n"
RECURSIVE SplitLinesFrom(_, _, _)
SplitLinesFrom(s, i, cur) ==
    IF i > Len(s) THEN (IF cur = <<>> THEN <<>> ELSE <<cur>>)
    ELSE IF s[i] = NL THEN <<cur>> \o SplitLinesFrom(s, i + 1, <<>>)
    ELSE SplitLinesFrom(s, i + 1, Append(cur, s[i]))

SplitLines(s) == SplitLinesFrom(s, 1, <<>>)

\* str.strip()
RECURSIVE RStrip(_)
RStrip(s) ==
    IF s # <<>> /\ s[Len(s)] \in Whitespace THEN RStrip(SubSeq(s, 1, Len(s) - 1))
    ELSE s

Strip(s) == LET r == RStrip(s) IN From(r, SkipClass(r, Whitespace, 1))

\* s.split(sep)[0] for a one-character sep
SplitFirst(s, sep) ==
    LET i == Find(s, <<sep>>, 1) IN IF i = 0 THEN s ELSE SubSeq(s, 1, i - 1)

\* the start of the run of non-whitespace characters that ends the line
RECURSIVE LastTokenStart(_, _)
LastTokenStart(s, i) ==
    IF i >= 1 /\ s[i] \notin Whitespace THEN LastTokenStart(s, i - 1) ELSE i + 1

----------------------------------------------------------------------------
(* dict and collections.Counter, as sequences of <<key, value>> pairs.     *)

Keys(d) == {d[i][1] : i \in 1..Len(d)}
HasKey(d, k) == k \in Keys(d)
Lookup(d, k) == d[CHOOSE i \in 1..Len(d) : d[i][1] = k][2]
Get(d, k, default) == IF HasKey(d, k) THEN Lookup(d, k) ELSE default
\* d[k] = v: a present key keeps its place, a new key goes last
Put(d, k, v) ==
    IF HasKey(d, k) THEN [i \in 1..Len(d) |-> IF d[i][1] = k THEN <<k, v>> ELSE d[i]]
    ELSE Append(d, <<k, v>>)

RECURSIVE SumValues(_)
SumValues(d) == IF d = <<>> THEN 0 ELSE Head(d)[2] + SumValues(Tail(d))

\* sorted(items, key=itemgetter(1), reverse=True): stable, so equal counts keep
\* their insertion order
RECURSIVE InsertByCount(_, _)
InsertByCount(sorted, x) ==
    IF sorted = <<>> THEN <<x>>
    ELSE IF Head(sorted)[2] >= x[2] THEN <<Head(sorted)>> \o InsertByCount(Tail(sorted), x)
    ELSE <<x>> \o sorted

RECURSIVE SortedByCount(_)
SortedByCount(d) ==
    IF d = <<>> THEN <<>>
    ELSE InsertByCount(SortedByCount(SubSeq(d, 1, Len(d) - 1)), d[Len(d)])

\* Counter.most_common() and Counter.most_common(n), n >= 0
MostCommonAll(d) == SortedByCount(d)
MostCommon(d, n) == FirstN(SortedByCount(d), n)

----------------------------------------------------------------------------
(* Size literals: [0-9.]+ followed by [kMG]?B.                             *)

\* the index after a size literal that starts at i, or 0 when none starts there
LiteralEnd(s, i) ==
    LET e == SkipClass(s, NumChars, i) IN
    IF e = i THEN 0
    ELSE IF e + 1 <= Len(s) /\ s[e] \in {"k", "M", "G"} /\ s[e + 1] = "B" THEN e + 2
    ELSE IF e <= Len(s) /\ s[e] = "B" THEN e + 1
    ELSE 0

\* the groups ([0-9.]+)([kMG]?B) of a literal
LiteralNum(lit) == SubSeq(lit, 1, SkipClass(lit, NumChars, 1) - 1)
LiteralUnit(lit) == From(lit, SkipClass(lit, NumChars, 1))

\* unit_mult.get(unit, 1)
UnitMult(unit) ==
    IF unit = <<"k", "B">> THEN 1024
    ELSE IF unit = <<"M", "B">> THEN 1024 * 1024
    ELSE IF unit = <<"G", "B">> THEN 1024 * 1024 * 1024
    ELSE 1

CountOf(s, c) == Cardinality({i \in 1..Len(s) : s[i] = c})

\* float(num) raises ValueError: num, made of digits and dots, has two dots or
\* no digit
FloatRaises(num) == CountOf(num, ".") > 1 \/ CountOf(num, ".") = Len(num)

RECURSIVE DecValue(_)
DecValue(ds) ==
    IF ds = <<>> THEN 0
    ELSE 10 * DecValue(SubSeq(ds, 1, Len(ds) - 1)) + DigitVal(ds[Len(ds)])

\* int(float(num) * mult) for a num float() accepts; the multipliers are powers
\* of two, so the product is the exact one for the short literals of reports
IntOfFloatTimes(num, mult) ==
    LET dot == Find(num, <<".">>, 1)
        ip == IF dot = 0 THEN num ELSE SubSeq(num, 1, dot - 1)
        fp == IF dot = 0 THEN <<>> ELSE From(num, dot + 1)
    IN  DecValue(ip) * mult + (DecValue(fp) * mult) \div Pow10(Len(fp))

to_bytes(num, unit) == IntOfFloatTimes(num, UnitMult(unit))

----------------------------------------------------------------------------
(* compare-heaps.py: row_re and parse_pprof.                               *)

\* row_re.match(line): <<>> when the line does not match, else the groups
\* <<num, unit, func>>.  ^\s*([0-9.]+)([kMG]?B)\s+.*\s+(\S+)$ needs whitespace
\* right after the literal and other whitespace right before the last token.
row_re(line) ==
    LET i0 == SkipClass(line, Whitespace, 1)
        ue == LiteralEnd(line, i0)
        t  == LastTokenStart(line, Len(line))
    IN  IF ue = 0 \/ ue > Len(line) \/ line[ue] \notin Whitespace
           \/ t > Len(line) \/ t - 1 <= ue
        THEN <<>>
        ELSE LET lit == SubSeq(line, i0, ue - 1)
             IN  <<LiteralNum(lit), LiteralUnit(lit), From(line, t)>>

\* the loop of parse_pprof over lines, from the dict m: the dict it returns, or
\* raised when float() raises on a matching line
RECURSIVE ParseLines(_, _)
ParseLines(lines, m) ==
    IF lines = <<>> THEN [raised |-> FALSE, m |-> m]
    ELSE LET r == row_re(Head(lines)) IN
         IF r = <<>> THEN ParseLines(Tail(lines), m)
         ELSE IF FloatRaises(r[1]) THEN [raised |-> TRUE, m |-> m]
         ELSE ParseLines(Tail(lines), Put(m, r[3], to_bytes(r[1], r[2])))

parse_pprof(text) == ParseLines(SplitLines(text), <<>>)

----------------------------------------------------------------------------
(* Ending a script.                                                        *)

\* fatal(msg): the message goes to stderr and the exit code is 1
fatal(kind) == exit' = "1" /\ err' = kind /\ pc' = "exited"

\* an exception nobody catches: a traceback on stderr and the exit code 1
Uncaught(kind) == exit' = "1" /\ err' = kind /\ pc' = "exited"

\* sys.exit(0), or running off the end of the script
Finish == exit' = "0" /\ err' = "none" /\ pc' = "exited"

Running == exit' = exit /\ err' = err

----------------------------------------------------------------------------
(* compare-heaps.py: the differencing of two snapshots.                    *)

\* for fn, new_b in new_map.items(): delta[fn] = new_b - old_map.get(fn, 0)
RECURSIVE DeltaLoop(_, _, _)
DeltaLoop(items, old, d) ==
    IF items = <<>> THEN d
    ELSE DeltaLoop(Tail(items), old,
                   Put(d, Head(items)[1], Head(items)[2] - Get(old, Head(items)[1], 0)))

\* a differencing that also visits the symbols only old has
RECURSIVE OldOnlyLoop(_, _, _)
OldOnlyLoop(items, new, d) ==
    IF items = <<>> THEN d
    ELSE IF HasKey(new, Head(items)[1]) THEN OldOnlyLoop(Tail(items), new, d)
    ELSE OldOnlyLoop(Tail(items), new, Put(d, Head(items)[1], 0 - Head(items)[2]))

DeltaOfUnion(old, new) == OldOnlyLoop(old, new, DeltaLoop(new, old, <<>>))

DeltaOf(old, new) == DeltaLoop(new, old, <<>>)

\* for fn, diff in rows: if diff <= 0: break; print
RECURSIVE UntilNotPositive(_)
UntilNotPositive(rows) ==
    IF rows = <<>> \/ Head(rows)[2] <= 0 THEN <<>>
    ELSE <<Head(rows)>> \o UntilNotPositive(Tail(rows))

\* a growth loop that breaks on diff < 0 only
RECURSIVE UntilNegative(_)
UntilNegative(rows) ==
    IF rows = <<>> \/ Head(rows)[2] < 0 THEN <<>>
    ELSE <<Head(rows)>> \o UntilNegative(Tail(rows))

GrowthRowsBreakLate(d, n) == UntilNegative(MostCommon(d, n))

GrowthRows(d, n) == UntilNotPositive(MostCommon(d, n))

\* for fn, diff in rows: if diff >= 0: continue; print
RECURSIVE OnlyNegative(_)
OnlyNegative(rows) ==
    IF rows = <<>> THEN <<>>
    ELSE IF Head(rows)[2] >= 0 THEN OnlyNegative(Tail(rows))
    ELSE <<Head(rows)>> \o OnlyNegative(Tail(rows))

\* delta.most_common()[:args.top][::-1], then the loop
ShrinkRows(d, n) == OnlyNegative(Reverse(FirstN(MostCommonAll(d), n)))

----------------------------------------------------------------------------
(* compare-heaps.py: the script.                                           *)

Profiles == {"old", "new"}
NextProfile(p) == IF p = "old" THEN "call_new" ELSE "delta"

\* resolve_heap(args.old), resolve_heap(args.new): a file, a directory with a
\* match, or neither
ResolveHeap(p) ==
    /\ prog = "compare" /\ pc = "resolve_" \o p
    /\ \E found \in BOOLEAN :
          IF found
          THEN pc' = (IF p = "old" THEN "resolve_new" ELSE "call_old") /\ Running
          ELSE fatal("ResolutionError")
    /\ UNCHANGED <<prog, log, out, top, report, compareVars, heapVars, goroutineVars>>

\* a call_pprof that does not wait for the child process
CallPprofNoWait(p) ==
    /\ prog = "compare" /\ pc = "call_" \o p
    /\ log' = Append(log, <<"render_start", p>>)
    /\ pc' = "parse_" \o p /\ Running
    /\ UNCHANGED <<prog, out, top, report, compareVars, heapVars, goroutineVars>>

\* call_pprof up to the start of the child process
CallPprof(p) ==
    /\ prog = "compare" /\ pc = "call_" \o p
    /\ \E go \in BOOLEAN :
          IF go
          THEN /\ log' = Append(log, <<"render_start", p>>)
               /\ pc' = "wait_" \o p /\ Running
          ELSE fatal("RendererUnavailable") /\ log' = log
    /\ UNCHANGED <<prog, out, top, report, compareVars, heapVars, goroutineVars>>

\* subprocess.check_output returns, or raises CalledProcessError
PprofExit(p) ==
    /\ prog = "compare" /\ pc = "wait_" \o p
    /\ \E ok \in BOOLEAN :
          /\ log' = Append(log, <<"render_end", p, IF ok THEN "ok" ELSE "failed">>)
          /\ IF ok THEN pc' = "parse_" \o p /\ Running ELSE fatal("RendererFailure")
    /\ UNCHANGED <<prog, out, top, report, compareVars, heapVars, goroutineVars>>

\* old_map = parse_pprof(...), new_map = parse_pprof(...)
ParsePprof(p) ==
    /\ prog = "compare" /\ pc = "parse_" \o p
    /\ log' = Append(log, <<"parse", p>>)
    /\ LET r == parse_pprof(report[p]) IN
       IF r.raised
       THEN Uncaught("ValueError") /\ UNCHANGED <<old_map, new_map>>
       ELSE /\ pc' = NextProfile(p) /\ Running
            /\ old_map' = (IF p = "old" THEN r.m ELSE old_map)
            /\ new_map' = (IF p = "new" THEN r.m ELSE new_map)
    /\ UNCHANGED <<prog, out, top, report, delta, growth, shrink, heapVars, goroutineVars>>

ComputeDelta ==
    /\ prog = "compare" /\ pc = "delta"
    /\ delta' = DeltaOf(old_map, new_map)
    /\ pc' = "growth" /\ Running
    /\ UNCHANGED <<prog, log, out, top, report, old_map, new_map, growth, shrink,
                   heapVars, goroutineVars>>

TopGrowth ==
    /\ prog = "compare" /\ pc = "growth"
    /\ growth' = GrowthRows(delta, top)
    /\ out' = Append(out, "Top growth")
    /\ pc' = "shrink" /\ Running
    /\ UNCHANGED <<prog, log, top, report, old_map, new_map, delta, shrink,
                   heapVars, goroutineVars>>

TopShrink ==
    /\ prog = "compare" /\ pc = "shrink"
    /\ shrink' = ShrinkRows(delta, top)
    /\ out' = Append(out, "Top shrink")
    /\ Finish
    /\ UNCHANGED <<prog, log, top, report, old_map, new_map, delta, growth,
                   heapVars, goroutineVars>>

----------------------------------------------------------------------------
(* heap-summary.py: size_re, to_bytes, table_re, the ranking.              *)

\* size_re.findall(line), each match as the text of the whole literal
RECURSIVE size_re_findall(_, _)
size_re_findall(s, i) ==
    IF i > Len(s) THEN <<>>
    ELSE LET e == LiteralEnd(s, i) IN
         IF e = 0 THEN size_re_findall(s, i + 1)
         ELSE <<SubSeq(s, i, e - 1)>> \o size_re_findall(s, e)

\* to_bytes(val) of heap-summary.py, for a val float() accepts
heap_to_bytes(val) == IntOfFloatTimes(LiteralNum(val), UnitMult(LiteralUnit(val)))
heap_to_bytes_raises(val) == FloatRaises(LiteralNum(val))

StartsWith(s, prefix) == Len(s) >= Len(prefix) /\ SubSeq(s, 1, Len(prefix)) = prefix

TotalPrefix == <<"T", "o", "t", "a", "l", ":">>

\* the loop over the lines that looks for the totals: only the first line that
\* starts with "Total:" is read
RECURSIVE ParseTotals(_)
ParseTotals(lines) ==
    IF lines = <<>> THEN [raised |-> FALSE, live |-> <<>>, idle |-> <<>>]
    ELSE IF ~StartsWith(Head(lines), TotalPrefix) THEN ParseTotals(Tail(lines))
    ELSE LET nums == size_re_findall(Head(lines), 1) IN
         IF Len(nums) < 2 THEN [raised |-> FALSE, live |-> <<>>, idle |-> <<>>]
         ELSE IF heap_to_bytes_raises(nums[1]) \/ heap_to_bytes_raises(nums[2])
         THEN [raised |-> TRUE, live |-> <<>>, idle |-> <<>>]
         ELSE [raised |-> FALSE, live |-> <<heap_to_bytes(nums[1])>>,
               idle |-> <<heap_to_bytes(nums[2])>>]

\* table_re.match(row): <<>> when the row does not match, else the groups
\* <<literal, fn>>.  ^\s*([0-9.]+[kMG]?B).*\s+(\S+)$ needs whitespace right
\* before the last token, at or after the end of the literal.
table_re(row) ==
    LET i0 == SkipClass(row, Whitespace, 1)
        ue == LiteralEnd(row, i0)
        t  == LastTokenStart(row, Len(row))
    IN  IF ue = 0 \/ t > Len(row) \/ t - 1 < ue
        THEN <<>>
        ELSE <<SubSeq(row, i0, ue - 1), From(row, t)>>

\* pkg = fn.split("/")[0] if "/" in fn else fn.split(".")[0]
GroupKey(fn) == IF Contains(fn, <<"/">>) THEN SplitFirst(fn, "/") ELSE SplitFirst(fn, ".")

\* pkg_rows[pkg] = bytes_
SetCount(counter, k, n) == Put(counter, k, n)

\* pkg_rows[pkg] += bytes_
AddCount(counter, k, n) == Put(counter, k, Get(counter, k, 0) + n)

\* the loop over the rows of the table: func_rows and pkg_rows, or raised when
\* float() raises on a matching row
RECURSIVE ParseRows(_, _, _)
ParseRows(lines, rows, pkgs) ==
    IF lines = <<>> THEN [raised |-> FALSE, rows |-> rows, pkgs |-> pkgs]
    ELSE LET m == table_re(Head(lines)) IN
         IF m = <<>> THEN ParseRows(Tail(lines), rows, pkgs)
         ELSE IF heap_to_bytes_raises(m[1])
         THEN [raised |-> TRUE, rows |-> rows, pkgs |-> pkgs]
         ELSE ParseRows(Tail(lines),
                        Append(rows, <<heap_to_bytes(m[1]), m[2]>>),
                        AddCount(pkgs, GroupKey(m[2]), heap_to_bytes(m[1])))

\* the characters of the reports, in code point order
Ascii == <<"\t", "\n", " ", "%", "(", ")", ",", ".", "/",
           "0", "1", "2", "3", "4", "5", "6", "7", "8", "9", ":",
           "A", "B", "C", "G", "M", "T", "[", "]", "_",
           "a", "b", "c", "d", "e", "f", "g", "h", "i", "k", "l", "m", "n",
           "o", "p", "q", "r", "s", "t", "u", "v", "w", "x", "y", "z">>
Code(c) == CHOOSE i \in 1..Len(Ascii) : Ascii[i] = c

\* a < b for str: by code point, a proper prefix first
RECURSIVE StrLess(_, _)
StrLess(a, b) ==
    IF b = <<>> THEN FALSE
    ELSE IF a = <<>> THEN TRUE
    ELSE IF Head(a) = Head(b) THEN StrLess(Tail(a), Tail(b))
    ELSE Code(Head(a)) < Code(Head(b))

\* x < y for the tuples (bytes_, fn)
RowLess(x, y) == x[1] < y[1] \/ (x[1] = y[1] /\ StrLess(x[2], y[2]))

RECURSIVE InsertRowDesc(_, _)
InsertRowDesc(sorted, x) ==
    IF sorted = <<>> THEN <<x>>
    ELSE IF RowLess(Head(sorted), x) THEN <<x>> \o sorted
    ELSE <<Head(sorted)>> \o InsertRowDesc(Tail(sorted), x)

\* a sort by descending bytes with ties by ascending name:
\* func_rows.sort(key=lambda r: (-r[0], r[1]))
RECURSIVE InsertRowNameAsc(_, _)
InsertRowNameAsc(sorted, x) ==
    IF sorted = <<>> THEN <<x>>
    ELSE IF Head(sorted)[1] < x[1] \/ (Head(sorted)[1] = x[1] /\ StrLess(x[2], Head(sorted)[2]))
    THEN <<x>> \o sorted
    ELSE <<Head(sorted)>> \o InsertRowNameAsc(Tail(sorted), x)

RECURSIVE SortRowsNameAsc(_)
SortRowsNameAsc(rows) ==
    IF rows = <<>> THEN <<>>
    ELSE InsertRowNameAsc(SortRowsNameAsc(SubSeq(rows, 1, Len(rows) - 1)), rows[Len(rows)])

\* func_rows.sort(reverse=True)
RECURSIVE SortRowsDesc(_)
SortRowsDesc(rows) ==
    IF rows = <<>> THEN <<>>
    ELSE InsertRowDesc(SortRowsDesc(SubSeq(rows, 1, Len(rows) - 1)), rows[Len(rows)])

\* func_rows.sort(reverse=True); func_rows = func_rows[:args.top]
TopRows(rows, n) == FirstN(SortRowsDesc(rows), n)

----------------------------------------------------------------------------
(* heap-summary.py: the script.                                            *)

\* resolve_profile(args.profile)
ResolveProfile ==
    /\ prog = "heap" /\ pc = "resolve"
    /\ \E found \in BOOLEAN :
          IF found THEN pc' = "call" /\ Running ELSE fatal("ResolutionError")
    /\ UNCHANGED <<prog, log, out, top, report, compareVars, heapVars, goroutineVars>>

\* run_pprof up to the start of the child process
RunPprof ==
    /\ prog = "heap" /\ pc = "call"
    /\ \E go \in BOOLEAN :
          IF go
          THEN /\ log' = Append(log, <<"render_start", "profile">>)
               /\ pc' = "wait" /\ Running
          ELSE fatal("RendererUnavailable") /\ log' = log
    /\ UNCHANGED <<prog, out, top, report, compareVars, heapVars, goroutineVars>>

\* subprocess.check_output returns, or raises CalledProcessError: sys.exit(1)
RunPprofExit ==
    /\ prog = "heap" /\ pc = "wait"
    /\ \E ok \in BOOLEAN :
          /\ log' = Append(log, <<"render_end", "profile", IF ok THEN "ok" ELSE "failed">>)
          /\ IF ok THEN pc' = "totals" /\ Running ELSE fatal("RendererFailure")
    /\ UNCHANGED <<prog, out, top, report, compareVars, heapVars, goroutineVars>>

\* parse totals from header
Totals ==
    /\ prog = "heap" /\ pc = "totals"
    /\ log' = Append(log, <<"parse", "profile">>)
    /\ LET r == ParseTotals(SplitLines(report["profile"])) IN
       IF r.raised
       THEN Uncaught("ValueError") /\ UNCHANGED <<total_live, total_idle>>
       ELSE /\ total_live' = r.live /\ total_idle' = r.idle
            /\ pc' = "rows" /\ Running
    /\ UNCHANGED <<prog, out, top, report, compareVars, json, func_rows, pkg_rows,
                   goroutineVars>>

\* the loop that fills func_rows and pkg_rows
Rows ==
    /\ prog = "heap" /\ pc = "rows"
    /\ log' = Append(log, <<"parse", "profile">>)
    /\ LET r == ParseRows(SplitLines(report["profile"]), <<>>, <<>>) IN
       IF r.raised
       THEN Uncaught("ValueError") /\ UNCHANGED <<func_rows, pkg_rows>>
       ELSE /\ func_rows' = r.rows /\ pkg_rows' = r.pkgs
            /\ pc' = "rank" /\ Running
    /\ UNCHANGED <<prog, out, top, report, compareVars, json, total_live, total_idle,
                   goroutineVars>>

\* the sort, the truncation and most_common
Rank ==
    /\ prog = "heap" /\ pc = "rank"
    /\ func_rows' = TopRows(func_rows, top)
    /\ pkg_rows' = MostCommon(pkg_rows, top)
    /\ pc' = "output" /\ Running
    /\ UNCHANGED <<prog, log, out, top, report, compareVars, json, total_live,
                   total_idle, goroutineVars>>

\* json.dump and sys.exit(0), or the text report
Output ==
    /\ prog = "heap" /\ pc = "output"
    /\ out' = IF json THEN <<"json">> ELSE <<"Top functions", "Top packages">>
    /\ Finish
    /\ UNCHANGED <<prog, log, top, report, compareVars, heapVars, goroutineVars>>

----------------------------------------------------------------------------
(* goroutine-summary.py: is_text_stack, the split and the tallies.         *)

Letters == {"a", "b", "c", "d", "e", "f", "g", "h", "i", "j", "k", "l", "m",
            "n", "o", "p", "q", "r", "s", "t", "u", "v", "w", "x", "y", "z",
            "A", "B", "C", "D", "E", "F", "G", "H", "I", "J", "K", "L", "M",
            "N", "O", "P", "Q", "R", "S", "T", "U", "V", "W", "X", "Y", "Z"}

\* [A-Za-z0-9 _,]
StateChars == Letters \cup Digits \cup {" ", "_", ","}

GoroutineWord == <<"g", "o", "r", "o", "u", "t", "i", "n", "e", " ">>

\* b"goroutine " in blob or b"\n" in blob
is_text_stack_either(blob) == Contains(blob, GoroutineWord) \/ Contains(blob, <<NL>>)

\* b"goroutine " in blob and b"\n" in blob
is_text_stack(blob) == Contains(blob, GoroutineWord) /\ Contains(blob, <<NL>>)

\* the index after a match of  goroutine \d+ \[  that starts at i, else 0
MarkerEnd(s, i) ==
    IF i + 9 > Len(s) \/ SubSeq(s, i, i + 9) # GoroutineWord THEN 0
    ELSE LET e == SkipClass(s, Digits, i + 10) IN
         IF e > i + 10 /\ e + 1 <= Len(s) /\ s[e] = " " /\ s[e + 1] = "["
         THEN e + 2 ELSE 0

\* re.split(r"goroutine \d+ \[", text)
RECURSIVE SplitMarkers(_, _, _)
SplitMarkers(s, i, cur) ==
    IF i > Len(s) THEN <<cur>>
    ELSE LET e == MarkerEnd(s, i) IN
         IF e # 0 THEN <<cur>> \o SplitMarkers(s, e, <<>>)
         ELSE SplitMarkers(s, i + 1, Append(cur, s[i]))

re_split(text) == SplitMarkers(text, 1, <<>>)

\* state_re.match(stack): <<>> when there is no match, else <<group 1>>
state_re(stack) ==
    LET e == SkipClass(stack, StateChars, 1) IN
    IF e > 1 /\ e + 1 <= Len(stack) /\ stack[e] = "]" /\ stack[e + 1] = ":"
    THEN <<SubSeq(stack, 1, e - 1)>> ELSE <<>>

\* m.group(1).split(',')[0].strip()
StateOf(group) == Strip(SplitFirst(group, ","))

\* [l for l in stack.splitlines() if l]
RECURSIVE NonEmpty(_)
NonEmpty(ls) ==
    IF ls = <<>> THEN <<>>
    ELSE IF Head(ls) = <<>> THEN NonEmpty(Tail(ls))
    ELSE <<Head(ls)>> \o NonEmpty(Tail(ls))

\* the body of the loop over the stacks, for the tally of states
TallyState(st, stack) ==
    LET m == state_re(stack) IN
    IF m # <<>> THEN AddCount(st, StateOf(m[1]), 1) ELSE st

\* the body of the loop over the stacks, for the tally of signatures
TallySig(sg, stack) ==
    LET lines == NonEmpty(SplitLines(stack)) IN
    IF Len(lines) > 1 THEN AddCount(sg, Strip(lines[2]), 1) ELSE sg

RECURSIVE Classify(_, _, _)
Classify(ss, st, sg) ==
    IF ss = <<>> THEN [states |-> st, sigs |-> sg]
    ELSE Classify(Tail(ss), TallyState(st, Head(ss)), TallySig(sg, Head(ss)))

----------------------------------------------------------------------------
(* goroutine-summary.py: the script.                                       *)

\* if not is_text_stack(raw): the warning, then the fallback
Sniff ==
    /\ prog = "goroutine" /\ pc = "sniff"
    /\ IF is_text_stack(raw)
       THEN pc' = "split" /\ out' = out
       ELSE pc' = "fallback" /\ out' = Append(out, "WARN input looks binary")
    /\ Running
    /\ UNCHANGED <<prog, log, top, report, compareVars, heapVars, goroutineVars>>

\* shutil.which("go"), then subprocess.run up to the start of the child process
FallbackRun ==
    /\ prog = "goroutine" /\ pc = "fallback"
    /\ \E go \in BOOLEAN :
          IF go
          THEN /\ log' = Append(log, <<"render_start", "dump">>)
               /\ pc' = "fallback_wait" /\ Running
          ELSE fatal("RendererUnavailable") /\ log' = log
    /\ UNCHANGED <<prog, out, top, report, compareVars, heapVars, goroutineVars>>

\* subprocess.run returns whatever the exit status of the child; sys.exit(0)
FallbackExit ==
    /\ prog = "goroutine" /\ pc = "fallback_wait"
    /\ \E ok \in BOOLEAN :
          /\ log' = Append(log, <<"render_end", "dump", IF ok THEN "ok" ELSE "failed">>)
          /\ out' = IF ok THEN Append(out, "pprof -top") ELSE out
    /\ Finish
    /\ UNCHANGED <<prog, top, report, compareVars, heapVars, goroutineVars>>

\* the split at the markers; no stack is fatal
Split ==
    /\ prog = "goroutine" /\ pc = "split"
    /\ LET ss == Tail(re_split(raw)) IN
       /\ stacks' = ss
       /\ IF ss = <<>>
          THEN fatal("NoStacksFound") /\ total' = total
          ELSE total' = Len(ss) /\ pc' = "classify" /\ Running
    /\ UNCHANGED <<prog, log, out, top, report, compareVars, heapVars, raw, states, sigs>>

\* the loop over the stacks
ClassifyStacks ==
    /\ prog = "goroutine" /\ pc = "classify"
    /\ LET r == Classify(stacks, <<>>, <<>>) IN states' = r.states /\ sigs' = r.sigs
    /\ pc' = "print" /\ Running
    /\ UNCHANGED <<prog, log, out, top, report, compareVars, heapVars, raw, stacks, total>>

\* the total, the states and the top signatures
PrintSummary ==
    /\ prog = "goroutine" /\ pc = "print"
    /\ out' = out \o <<"Total goroutines", "By scheduler state", "Top stack signatures">>
    /\ Finish
    /\ UNCHANGED <<prog, log, top, report, compareVars, heapVars, goroutineVars>>

----------------------------------------------------------------------------
(* The inputs.                                                             *)

TOP_N == 15

\* the sequences over S of length at most n
Seqs(S, n) == UNION {[1..k -> S] : k \in 0..n}

\* lines, each ended by a line break
RECURSIVE Text(_)
Text(lines) == IF lines = <<>> THEN <<>> ELSE Head(lines) \o <<NL>> \o Text(Tail(lines))

DigitChars == <<"0", "1", "2", "3", "4", "5", "6", "7", "8", "9">>
RECURSIVE ToDec(_)
ToDec(n) == IF n < 10 THEN <<DigitChars[n + 1]>> ELSE Append(ToDec(n \div 10), DigitChars[(n % 10) + 1])

\* rows of the reports compare-heaps.py reads
\* 1MB 0 0 A
CmpA1 ==
    <<"1", "M", "B", " ", "0", " ", "0", " ", "A">>
\* 2MB 0 0 A
CmpA2 ==
    <<"2", "M", "B", " ", "0", " ", "0", " ", "A">>
\* 1.2.3MB 0 0 B
CmpBad ==
    <<"1", ".", "2", ".", "3", "M", "B", " ", "0", " ", "0", " ", "B">>
\* flat sum%
CmpHeader ==
    <<"f", "l", "a", "t", " ", "s", "u", "m", "%">>
CmpLines == {CmpA1, CmpA2, CmpBad, CmpHeader}

\* rows of the reports heap-summary.py reads
\* 1kB 0 a/b.c
RowABC ==
    <<"1", "k", "B", " ", "0", " ", "a", "/", "b", ".", "c">>
\* 1kB 0 a/d
RowAD ==
    <<"1", "k", "B", " ", "0", " ", "a", "/", "d">>
\* 2kB 0 x.y
RowXY ==
    <<"2", "k", "B", " ", "0", " ", "x", ".", "y">>
\* .5kB z
RowZ ==
    <<".", "5", "k", "B", " ", "z">>
\* 1.2.3MB 0 m.f
RowBad ==
    <<"1", ".", "2", ".", "3", "M", "B", " ", "0", " ", "m", ".", "f">>
\* Total: 3kB, 1kB
RowTotal ==
    <<"T", "o", "t", "a", "l", ":", " ", "3", "k", "B", ",", " ", "1", "k",
      "B">>
\* 0B 0 x.z
RowZero ==
    <<"0", "B", " ", "0", " ", "x", ".", "z">>
HeapLines == {RowABC, RowAD, RowXY, RowZ, RowBad, RowTotal, RowZero}

\* pieces of the dumps goroutine-summary.py reads
\* goroutine 1 [running]:\nf()\n\n
StackRunning ==
    <<"g", "o", "r", "o", "u", "t", "i", "n", "e", " ", "1", " ", "[", "r",
      "u", "n", "n", "i", "n", "g", "]", ":", NL, "f", "(", ")", NL, NL>>
\* goroutine 2 [select (no cases)]:\ng()\n\n
StackSelect ==
    <<"g", "o", "r", "o", "u", "t", "i", "n", "e", " ", "2", " ", "[", "s",
      "e", "l", "e", "c", "t", " ", "(", "n", "o", " ", "c", "a", "s", "e",
      "s", ")", "]", ":", NL, "g", "(", ")", NL, NL>>
\* goroutine 3 [IO wait, 5 minutes]:\nf()\n\n
StackWait ==
    <<"g", "o", "r", "o", "u", "t", "i", "n", "e", " ", "3", " ", "[", "I",
      "O", " ", "w", "a", "i", "t", ",", " ", "5", " ", "m", "i", "n", "u",
      "t", "e", "s", "]", ":", NL, "f", "(", ")", NL, NL>>
\* goroutine 
BareWord ==
    <<"g", "o", "r", "o", "u", "t", "i", "n", "e", " ">>
\* \n
BlankLine ==
    <<NL>>
\* x
Byte ==
    <<"x">>
\* goroutine 7 [
BareMarker ==
    <<"g", "o", "r", "o", "u", "t", "i", "n", "e", " ", "7", " ", "[">>
Pieces == {StackRunning, StackSelect, StackWait, BareWord, BlankLine, Byte, BareMarker}

\* the snapshots of the differencing runs: symbols A, B, C with 1..MaxUnits MB
Syms == <<<<"A">>, <<"B">>, <<"C">>>>
MBLine(u, sym) == ToDec(u) \o <<"M", "B", " ", "0", " ", "0", " ">> \o sym

\* old reports: each symbol absent (0) or present, in the order A, B, C
RECURSIVE OldLines(_, _)
OldLines(f, i) ==
    IF i > Len(Syms) THEN <<>>
    ELSE (IF f[i] = 0 THEN <<>> ELSE <<MBLine(f[i], Syms[i])>>) \o OldLines(f, i + 1)

OldTexts == {Text(OldLines(f, 1)) : f \in [1..Len(Syms) -> 0..MaxUnits]}

\* new reports: distinct symbols in any order
NewRows == {r \in Seqs((1..Len(Syms)) \X (1..MaxUnits), Len(Syms)) :
               \A i, j \in 1..Len(r) : i # j => r[i][1] # r[j][1]}
NewTexts == {Text([i \in 1..Len(r) |-> MBLine(r[i][2], Syms[r[i][1]])]) : r \in NewRows}

\* the scenario {A:10MB, B:5MB} -> {A:12MB, B:3MB, C:1MB}
ScenarioOld == Text(<<MBLine(10, Syms[1]), MBLine(5, Syms[2])>>)
ScenarioNew == Text(<<MBLine(12, Syms[1]), MBLine(3, Syms[2]), MBLine(1, Syms[3])>>)

----------------------------------------------------------------------------
(* The specifications.                                                     *)

NoCompare ==
    old_map = <<>> /\ new_map = <<>> /\ delta = <<>> /\ growth = <<>> /\ shrink = <<>>
NoHeap ==
    /\ json = FALSE /\ total_live = <<>> /\ total_idle = <<>>
    /\ func_rows = <<>> /\ pkg_rows = <<>>
NoGoroutine ==
    raw = <<>> /\ stacks = <<>> /\ total = 0 /\ states = <<>> /\ sigs = <<>>
Started == exit = "none" /\ err = "none" /\ out = <<>>

InitCompare ==
    /\ prog = "compare" /\ pc = "resolve_old" /\ Started /\ log = <<>>
    /\ top \in 0..MaxTop
    /\ \E o, n \in {Text(ls) : ls \in Seqs(CmpLines, MaxCmpLines)} :
          report = [p \in Profiles |-> IF p = "old" THEN o ELSE n]
    /\ NoCompare /\ NoHeap /\ NoGoroutine

InitHeap ==
    /\ prog = "heap" /\ pc = "resolve" /\ Started /\ log = <<>>
    /\ top \in 0..MaxTop
    /\ \E t \in {Text(ls) : ls \in Seqs(HeapLines, MaxLines)} :
          report = [p \in {"profile"} |-> t]
    /\ NoCompare /\ NoGoroutine
    /\ json \in BOOLEAN /\ total_live = <<>> /\ total_idle = <<>>
    /\ func_rows = <<>> /\ pkg_rows = <<>>

InitGoroutine ==
    /\ prog = "goroutine" /\ pc = "sniff" /\ Started /\ log = <<>>
    /\ top = TOP_N
    /\ report = <<>>
    /\ NoCompare /\ NoHeap
    /\ raw \in {Concat(ps) : ps \in Seqs(Pieces, MaxPieces)}
    /\ stacks = <<>> /\ total = 0 /\ states = <<>> /\ sigs = <<>>

Init == InitCompare \/ InitHeap \/ InitGoroutine

Next ==
    \/ \E p \in Profiles : ResolveHeap(p)
    \/ \E p \in Profiles : CallPprof(p)
    \/ \E p \in Profiles : PprofExit(p)
    \/ \E p \in Profiles : ParsePprof(p)
    \/ ComputeDelta
    \/ TopGrowth
    \/ TopShrink
    \/ ResolveProfile
    \/ RunPprof
    \/ RunPprofExit
    \/ Totals
    \/ Rows
    \/ Rank
    \/ Output
    \/ Sniff
    \/ FallbackRun
    \/ FallbackExit
    \/ Split
    \/ ClassifyStacks
    \/ PrintSummary

Spec == Init /\ [][Next]_vars

\* compare-heaps.py after both reports were rendered and parsed, for the
\* differencing alone over a wider range of snapshots
RenderedAndParsed ==
    <<<<"render_start", "old">>, <<"render_end", "old", "ok">>, <<"parse", "old">>,
      <<"render_start", "new">>, <<"render_end", "new", "ok">>, <<"parse", "new">>>>

InitDiff ==
    /\ prog = "compare" /\ pc = "delta" /\ Started /\ log = RenderedAndParsed
    /\ top \in 0..MaxTop
    /\ \E o \in OldTexts \cup {ScenarioOld}, n \in NewTexts \cup {ScenarioNew} :
          /\ report = [p \in Profiles |-> IF p = "old" THEN o ELSE n]
          /\ old_map = parse_pprof(o).m
          /\ new_map = parse_pprof(n).m
    /\ delta = <<>> /\ growth = <<>> /\ shrink = <<>>
    /\ NoHeap /\ NoGoroutine

NextDiff == ComputeDelta \/ TopGrowth \/ TopShrink

SpecDiff == InitDiff /\ [][NextDiff]_vars

----------------------------------------------------------------------------
(* The claims about the differencing (compare-heaps.py), under SpecDiff.   *)

MB == 1024 * 1024

\* new[sym] - old.get(sym, 0)
TrueDelta(sym) == Get(new_map, sym, 0) - Get(old_map, sym, 0)

\* the deltas over the given symbols, in ascending order
RECURSIVE AscendingDeltas(_)
AscendingDeltas(S) ==
    IF S = {} THEN <<>>
    ELSE LET m == CHOOSE x \in S : \A y \in S : TrueDelta(x) <= TrueDelta(y)
         IN  <<TrueDelta(m)>> \o AscendingDeltas(S \ {m})

RECURSIVE NegativeOnes(_)
NegativeOnes(ds) ==
    IF ds = <<>> THEN <<>>
    ELSE (IF Head(ds) < 0 THEN <<Head(ds)>> ELSE <<>>) \o NegativeOnes(Tail(ds))

Compared == prog = "compare" /\ pc = "exited" /\ exit = "0"
GrowthPrinted == prog = "compare" /\ (pc = "shrink" \/ Compared)
Positive == {sym \in Keys(new_map) : TrueDelta(sym) > 0}
Distinct(d) == \A i, j \in 1..Len(d) : i # j => d[i][1] # d[j][1]

\* C1: for every n >= 1 the shrink list is the first n deltas in ascending
\* order over new's symbols, restricted to those below zero; for
\* {A:10MB, B:5MB} -> {A:12MB, B:3MB, C:1MB} and n = 2 it is [(B, -2MB)].
ShrinkIsTheMostNegative ==
    (Compared /\ top >= 1) =>
        /\ [i \in 1..Len(shrink) |-> shrink[i][2]]
              = NegativeOnes(FirstN(AscendingDeltas(Keys(new_map)), top))
        /\ \A i \in 1..Len(shrink) :
              shrink[i][1] \in Keys(new_map) /\ shrink[i][2] = TrueDelta(shrink[i][1])
        /\ (report["old"] = ScenarioOld /\ report["new"] = ScenarioNew /\ top = 2)
              => shrink = <<<<Syms[2], 0 - 2 * MB>>>>

\* what C2 says of the growth list but for the order of its deltas
GrowthIsPositivePrefix ==
    /\ Len(growth) <= top
    /\ Distinct(growth)
    /\ \A i \in 1..Len(growth) :
          growth[i][1] \in Positive /\ growth[i][2] = TrueDelta(growth[i][1])
    /\ Len(growth) = Min(top, Cardinality(Positive))
    /\ \A sym \in Positive \ Keys(growth) :
          growth # <<>> => TrueDelta(sym) <= growth[Len(growth)][2]

\* C2 as amended: for every n >= 0 the growth list has at most n entries, holds
\* only symbols with delta > 0, is the prefix of the descending order, and its
\* deltas never increase from one entry to the next (equal deltas may follow
\* each other).
GrowthIsNonIncreasingPositivePrefix ==
    GrowthPrinted =>
        /\ GrowthIsPositivePrefix
        /\ \A i \in 1..(Len(growth) - 1) : growth[i][2] >= growth[i + 1][2]

\* C2 as stated: the same, with deltas strictly descending from one entry to
\* the next.
GrowthIsStrictlyDescendingPositivePrefix ==
    GrowthPrinted =>
        /\ GrowthIsPositivePrefix
        /\ \A i \in 1..(Len(growth) - 1) : growth[i][2] > growth[i + 1][2]

\* two symbols grew by the same amount and both are listed
GrowthListsATie ==
    Compared /\ Len(growth) >= 2 /\ growth[1][2] = growth[2][2]

\* C3: a symbol old has and new lacks is not visited by the delta computation
\* and is in neither the growth list nor the shrink list.
VanishedSymbolIsNeverListed ==
    \A sym \in Keys(old_map) \ Keys(new_map) :
        sym \notin Keys(delta) /\ sym \notin Keys(growth) /\ sym \notin Keys(shrink)

\* a symbol vanished, the comparison ended and both lists have entries
VanishedSymbolAndListsPrinted ==
    /\ Compared /\ Keys(old_map) \ Keys(new_map) # {}
    /\ growth # <<>> /\ shrink # <<>>

----------------------------------------------------------------------------
(* The claims about the scripts, under Spec.                               *)

CountRows(rows, r) == Cardinality({i \in 1..Len(rows) : rows[i] = r})
ParsedRows == ParseRows(SplitLines(report["profile"]), <<>>, <<>>).rows
Ranked == prog = "heap" /\ (pc = "output" \/ (pc = "exited" /\ exit = "0"))

\* x may stand before y: more bytes, or the same bytes and a name not below
NameDescending(x, y) == x[1] > y[1] \/ (x[1] = y[1] /\ ~StrLess(x[2], y[2]))
\* x may stand before y: more bytes, or the same bytes and a name not above
NameAscending(x, y) == x[1] > y[1] \/ (x[1] = y[1] /\ ~StrLess(y[2], x[2]))

\* result has the length of the first n of rows and holds no row more often
\* than rows does
IsTruncation(result, rows, n) ==
    /\ Len(result) = Min(n, Len(rows))
    /\ \A i \in 1..Len(result) : CountRows(result, result[i]) <= CountRows(rows, result[i])

\* C4 as amended: topRows returns the first n rows (n >= 0) of the order that
\* sorts descending by bytes and, among rows with equal bytes, descending by
\* symbol name.
TopRowsBreakTiesByDescendingName ==
    Ranked =>
        LET parsed == ParsedRows IN
        /\ IsTruncation(func_rows, parsed, top)
        /\ \A i, j \in 1..Len(func_rows) : i < j => NameDescending(func_rows[i], func_rows[j])
        /\ \A k \in 1..Len(parsed) :
              CountRows(func_rows, parsed[k]) < CountRows(parsed, parsed[k])
                 => func_rows = <<>> \/ NameDescending(func_rows[Len(func_rows)], parsed[k])

\* C4 as stated: the same, with ties broken by ascending symbol name.
TopRowsBreakTiesByAscendingName ==
    Ranked =>
        LET parsed == ParsedRows IN
        /\ IsTruncation(func_rows, parsed, top)
        /\ \A i, j \in 1..Len(func_rows) : i < j => NameAscending(func_rows[i], func_rows[j])
        /\ \A k \in 1..Len(parsed) :
              CountRows(func_rows, parsed[k]) < CountRows(parsed, parsed[k])
                 => func_rows = <<>> \/ NameAscending(func_rows[Len(func_rows)], parsed[k])

\* two rows with the same bytes and different names were ranked
TopRowsHoldATie ==
    /\ Ranked /\ Len(func_rows) >= 2
    /\ func_rows[1][1] = func_rows[2][1] /\ func_rows[1][2] # func_rows[2][2]

\* C5: a line whose leading size token fails the literal grammar is skipped:
\* parsing never aborts the invocation, and the well-formed rows of the report
\* are produced.
MalformedLiteralIsSkipped ==
    /\ err # "ValueError"
    /\ (prog = "heap" /\ pc = "rank") =>
          LET lines == SplitLines(report["profile"]) IN
          \A k \in 1..Len(lines) :
              (table_re(lines[k]) # <<>> /\ ~heap_to_bytes_raises(table_re(lines[k])[1]))
                 => \E i \in 1..Len(func_rows) : func_rows[i][2] = table_re(lines[k])[2]

\* C6 as amended: the classifier takes the binary fallback path exactly when
\* the input lacks the text "goroutine " or lacks a newline; an input that has
\* both and no "goroutine <id> [" marker ends in the fatal NoStacksFound.
TookFallback == prog = "goroutine" /\ pc # "sniff" /\ out # <<>> /\ out[1] = "WARN input looks binary"
HasWord == Contains(raw, GoroutineWord)
HasNewline == Contains(raw, <<NL>>)
HasMarker == \E i \in 1..Len(raw) : MarkerEnd(raw, i) # 0

FallbackIffNoWordOrNoNewline ==
    (prog = "goroutine" /\ pc # "sniff") =>
        /\ TookFallback <=> (~HasWord \/ ~HasNewline)
        /\ err = "NoStacksFound" => (HasWord /\ HasNewline /\ ~HasMarker)
        /\ (pc = "exited" /\ HasWord /\ HasNewline /\ ~HasMarker) => err = "NoStacksFound"

\* C6 as stated: the fallback is taken only when the input lacks the marker's
\* text and lacks any newline; every other input without a marker ends in
\* NoStacksFound.
FallbackOnlyWithoutWordAndNewline ==
    (prog = "goroutine" /\ pc # "sniff") =>
        /\ TookFallback => (~HasWord /\ ~HasNewline)
        /\ (pc = "exited" /\ ~HasMarker /\ ~(~HasWord /\ ~HasNewline)) => err = "NoStacksFound"

\* text of several lines that never mentions "goroutine " went to the renderer
MultiLineTextTookFallback ==
    /\ TookFallback /\ pc = "exited" /\ exit = "0"
    /\ ~HasWord /\ CountOf(raw, NL) >= 2 /\ Contains(raw, Byte)

\* C7 as amended: the renderer is called at most twice, each call has run to
\* completion before any parsing goes on, and a report is parsed only after
\* its own render succeeded; in two-snapshot mode the old report is parsed
\* before the render of the new snapshot starts.
IsRender(e) == e[1] = "render_start" \/ e[1] = "render_end"
IsParse(e) == e[1] = "parse"

RenderCompletesBeforeItsParse ==
    /\ Cardinality({i \in 1..Len(log) : log[i][1] = "render_start"}) <= 2
    /\ \A i \in 1..(Len(log) - 1) :
          log[i][1] = "render_start" => log[i + 1][1] = "render_end" /\ log[i + 1][2] = log[i][2]
    /\ \A j \in 1..Len(log) :
          IsParse(log[j]) => \E i \in 1..(j - 1) : log[i] = <<"render_end", log[j][2], "ok">>
    /\ \A i, j \in 1..Len(log) :
          (log[i] = <<"parse", "old">> /\ log[j] = <<"render_start", "new">>) => i < j

\* C7 as stated: every renderer call has run to completion before any report
\* parsing begins: no parse step comes before a render step.
AllRendersBeforeAnyParse ==
    /\ Cardinality({i \in 1..Len(log) : log[i][1] = "render_start"}) <= 2
    /\ \A i, j \in 1..Len(log) : (IsParse(log[i]) /\ IsRender(log[j])) => j < i

\* two snapshots were rendered and parsed
BothSnapshotsRenderedAndParsed ==
    /\ prog = "compare" /\ Len(log) = 6
    /\ log[3] = <<"parse", "old">> /\ log[5] = <<"render_end", "new", "ok">>
    /\ log[6] = <<"parse", "new">>

\* C8: whenever the renderer exits with failure the invocation ends in a fatal
\* error: exit code 1, and nothing ranked is printed.
RendererFailed == \E i \in 1..Len(log) : log[i][1] = "render_end" /\ log[i][3] = "failed"

RendererFailureIsFatal ==
    RendererFailed =>
        /\ pc = "exited" /\ exit = "1" /\ err = "RendererFailure"
        /\ \A i \in 1..Len(out) : out[i] = "WARN input looks binary"

\* C9: groupByPackage is a partition: each row is added to exactly one group,
\* the prefix before the first "/" if the symbol has one, else the prefix
\* before the first ".", else the whole symbol; before the truncation the
\* grouped totals sum to the sum of the rows.
HasChar(s, c) == \E i \in 1..Len(s) : s[i] = c
IsKeyOf(k, fn) ==
    /\ Len(k) <= Len(fn) /\ SubSeq(fn, 1, Len(k)) = k
    /\ IF HasChar(fn, "/") THEN ~HasChar(k, "/") /\ fn[Len(k) + 1] = "/"
       ELSE IF HasChar(fn, ".") THEN ~HasChar(k, ".") /\ fn[Len(k) + 1] = "."
       ELSE k = fn

RECURSIVE SumBytes(_)
SumBytes(rows) == IF rows = <<>> THEN 0 ELSE Head(rows)[1] + SumBytes(Tail(rows))

RECURSIVE SumBytesOfGroup(_, _)
SumBytesOfGroup(rows, k) ==
    IF rows = <<>> THEN 0
    ELSE (IF IsKeyOf(k, Head(rows)[2]) THEN Head(rows)[1] ELSE 0) + SumBytesOfGroup(Tail(rows), k)

GroupByPackageIsPartition ==
    (prog = "heap" /\ pc = "rank") =>
        /\ Distinct(pkg_rows)
        /\ \A i \in 1..Len(func_rows) :
              Cardinality({k \in Keys(pkg_rows) : IsKeyOf(k, func_rows[i][2])}) = 1
        /\ \A k \in Keys(pkg_rows) : Lookup(pkg_rows, k) = SumBytesOfGroup(func_rows, k)
        /\ SumValues(pkg_rows) = SumBytes(func_rows)

\* three rows were grouped into two groups, one keyed by a "/" prefix and one
\* by a "." prefix
RowsGroupedByBothSeparators ==
    /\ prog = "heap" /\ pc = "rank"
    /\ Len(func_rows) = 3 /\ Len(pkg_rows) = 2
    /\ \E i \in 1..3 : HasChar(func_rows[i][2], "/")
    /\ \E i \in 1..3 : ~HasChar(func_rows[i][2], "/") /\ HasChar(func_rows[i][2], ".")
    /\ \A i \in 1..2 : pkg_rows[i][2] > 0

\* C10: total is the number of markers and every segment is tallied under
\* exactly one scheduler state, so the counts of stateTally sum to total, also
\* for states with characters outside letters, digits, space, "_" and ",".
\* It is stated of the dumps whose every segment has a state description.
Classified == prog = "goroutine" /\ (pc = "print" \/ (pc = "exited" /\ exit = "0" /\ stacks # <<>>))

\* the segment starts with a state description closed by "]:" on its first line
HasStateDescription(stack) ==
    LET i == Find(stack, <<"]", ":">>, 1) IN i > 1 /\ ~HasChar(SubSeq(stack, 1, i - 1), NL)

StateTallySumsToTotal ==
    (Classified /\ \A i \in 1..Len(stacks) : HasStateDescription(stacks[i])) =>
        /\ total = Cardinality({i \in 1..Len(raw) : MarkerEnd(raw, i) # 0})
        /\ SumValues(states) = total

====
